---- MODULE Spec2Model ----
(***************************************************************************)
(* Model of src/visualizer.py: the Visualizer refresh loop (show, refresh, *)
(* one-shot timers), the LineVisualizer and CustomVisualizer renderers     *)
(* and their key handlers.                                                 *)
(*                                                                         *)
(* Numbers.  A Python number is a record [v, kind]; kind is the Python     *)
(* type ("int" = Python int, "int16" = numpy.int16, "float" = float or     *)
(* numpy.float64).  numpy.int16 arithmetic wraps modulo 2^16.  A float     *)
(* carries its value rounded down to a whole unit (IEEE rounding is        *)
(* replaced by rounding to units).  A range width is kept exactly as       *)
(* base * 0.999^decays.  Learning rates are counted in hundredths.         *)
(* Pixels are not part of the state: a frame is described by what was      *)
(* drawn (rectangles) or by the features it was drawn from.  The widget    *)
(* keeps the size of its sizeHint, WIDTH x HEIGHT.                         *)
(***************************************************************************)
EXTENDS Integers, Sequences, FiniteSets, TLC

VARIABLES variant, visible, timers, ticks, keys, tick, frame,
          columns, brush, display_odds, display_evens, is_fullscreen,
          use_rolling, display_stats, center,
          ampl_range, freq_range, rollingAmpl, rollingFreq,
          amplLearningRate, freqLearningRate, calls, lastKey

vars == <<variant, visible, timers, ticks, keys, tick, frame,
          columns, brush, display_odds, display_evens, is_fullscreen,
          use_rolling, display_stats, center,
          ampl_range, freq_range, rollingAmpl, rollingFreq,
          amplLearningRate, freqLearningRate, calls, lastKey>>

config == <<columns, brush, display_odds, display_evens, is_fullscreen,
            use_rolling, display_stats, center,
            amplLearningRate, freqLearningRate, lastKey>>

smoothing == <<ampl_range, freq_range, rollingAmpl, rollingFreq>>

----------------------------------------------------------------------------
(* Bounds *)
MaxTicks == 2
MaxKeys == 1

(* Program constants *)
SAMPLE_MAX == 32767
SAMPLE_MIN == -(SAMPLE_MAX + 1)
SAMPLE_RATE == 44100
update_interval == 33
WIDTH == 800
HEIGHT == 800
freq_cap == 20000
BrushCount == 6

Key_0 == 48
Key_1 == 49
Key_9 == 57
Key_Minus == 45
Key_Equal == 61
Key_I == 73
Key_O == 79
Key_P == 80
Key_R == 82
Key_S == 83
Key_Escape == 16777216

(* 'QWERTYU' as key codes, in the order of line 111 / 420 *)
ColorKeys == <<81, 87, 69, 82, 84, 89, 85>>

(* Inputs *)
Variants == {"Line", "Custom"}
(* Blocks of four 16-bit samples: silence, a constant negative block, an   *)
(* impulse (all bins tie), a loud tone in bin 1, loud and quiet tones in   *)
(* bin 2                                                                   *)
Blocks == {<<0, 0, 0, 0>>,
           <<-20000, -20000, -20000, -20000>>,
           <<1000, 0, 0, 0>>,
           <<20000, -20000, 20000, -20000>>,
           <<20000, 0, -20000, 0>>,
           <<1000, -20000, 1000, -20000>>}
Elapsed == {0, 10, 40}
Keys == {Key_0, 50, Key_Minus, Key_Equal, Key_I, Key_O, Key_P,
         Key_R, Key_S, Key_Escape, 87, 85}

(* the keys delivered while the loop runs are those generate() depends on; *)
(* the handlers are run on every key of Keys in SpecKeys                   *)
LoopKeys == {Key_S, Key_R, Key_O, Key_P, 50}

----------------------------------------------------------------------------
(* Numbers *)
Int_(n) == [v |-> n, kind |-> "int"]
Int16(n) == [v |-> n, kind |-> "int16"]
Float(n) == [v |-> n, kind |-> "float"]

Abs(n) == IF n < 0 THEN -n ELSE n

(* int(): truncation toward zero of a / b, b > 0 *)
Trunc(a, b) == IF a >= 0 THEN a \div b ELSE -((-a) \div b)

Wrap16(n) == ((n - SAMPLE_MIN) % 65536) + SAMPLE_MIN

RECURSIVE Pow(_, _)
Pow(b, k) == IF k = 0 THEN 1 ELSE b * Pow(b, k - 1)

----------------------------------------------------------------------------
(* Spectral analysis (lines 121-124, 360-363) of a block of four samples.  *)
(* The four-point transform needs no irrational twiddle factors, so the    *)
(* magnitudes are compared exactly through their squares, in units of      *)
(* 1000 (every sample of Blocks is a multiple of 1000;   the position of    *)
(* the maximum does not depend on the unit).                               *)
Scaled(block) == [i \in 1..4 |-> block[i] \div 1000]

(* len(fft) = len(data)/2 + 1 *)
NBins(block) == Len(block) \div 2 + 1

(* np.fft.rfft(data, n=len(data)) for len(data) = 4: bins 0, 1, 2 *)
rfftRe(x) == <<x[1] + x[2] + x[3] + x[4], x[1] - x[3], x[1] - x[2] + x[3] - x[4]>>
rfftIm(x) == <<0, x[4] - x[2], 0>>

(* np.absolute(...), squared *)
MagSq(block) ==
    LET x == Scaled(block)
    IN [i \in 1..3 |-> rfftRe(x)[i] * rfftRe(x)[i] + rfftIm(x)[i] * rfftIm(x)[i]]

(* fft == np.amax(fft): the bins (counted from 0) attaining the maximum *)
MaxBins(block) ==
    LET m == MagSq(block)
    IN {i \in 0..2 : \A j \in 0..2 : m[i + 1] >= m[j + 1]}

(* freq[mask][0]: the lowest such bin *)
PeakBin(block) == CHOOSE i \in MaxBins(block) : \A j \in MaxBins(block) : i <= j

(* np.fft.fftfreq(n, d=1./SAMPLE_RATE)[i] is FftFreqNum(i, n) / n:          *)
(* the first (n-1)/2+1 entries count up from 0, the rest are negative.     *)
FftFreqNum(i, n) ==
    IF i <= (n - 1) \div 2 THEN i * SAMPLE_RATE ELSE (i - n) * SAMPLE_RATE

(* abs(freq[fft == np.amax(fft)][0]), as a numerator over len(fft) *)
MaxFreqNum(block) == Abs(FftFreqNum(PeakBin(block), NBins(block)))

(* np.amax(data) *)
MaxAmplitude(block) ==
    CHOOSE s \in {block[i] : i \in 1..4} : \A i \in 1..4 : s >= block[i]

(* lines 121-124 and 360-363: what generate() extracts from a block *)
Analyze(block) ==
    [bin |-> PeakBin(block), len |-> Len(block), nbins |-> NBins(block),
     freqNum |-> MaxFreqNum(block), max_amplitude |-> MaxAmplitude(block)]

(* the same, tabulated over the blocks get_data can return *)
Analysis == [block \in Blocks |-> Analyze(block)]

----------------------------------------------------------------------------
(* Feature smoother of CustomVisualizer *)

(* val - lo: numpy.int16 - numpy.int16 stays numpy.int16 and wraps; a      *)
(* Python int or a float operand widens the result.                        *)
Sub(val, lo) ==
    IF val.kind = "int16" /\ lo.kind = "int16" THEN Wrap16(val.v - lo.v)
    ELSE val.v - lo.v

(* d > b * 0.999^k for b > 0, decided exactly.  The two linear bounds      *)
(* (1 - k/1000 <= 0.999^k <= 1000/(1000 + k)) settle every case but a      *)
(* narrow band, which is settled by the full products.                     *)
AboveWidth(d, b, k) ==
    IF d <= 0 THEN FALSE
    ELSE IF k = 0 THEN d > b
    ELSE IF d >= b THEN TRUE
    ELSE IF 1000 * d <= b * (1000 - k) THEN FALSE
    ELSE IF k > 1 /\ d * (1000 + k) > 1000 * b THEN TRUE
    ELSE d * Pow(1000, k) > b * Pow(999, k)

(* valRatio > 1, valRatio = d / (w.base * 0.999^w.decays) *)
RatioAboveOne(d, w) ==
    IF w.base > 0 THEN AboveWidth(d, w.base, w.decays)
    ELSE IF w.base < 0 THEN AboveWidth(-d, -w.base, w.decays)
    ELSE FALSE

(* valRatio < 0 *)
RatioBelowZero(d, w) == (d < 0 /\ w.base > 0) \/ (d > 0 /\ w.base < 0)

getDecimalRangeSwapped(range, val) ==
    LET d == Sub(val, range.lo)
        valRatio == [num |-> d, width |-> range.w]
    IN  IF RatioAboveOne(d, range.w)
        THEN [range |-> [lo |-> val, w |-> range.w], ratio |-> valRatio]
        ELSE IF RatioBelowZero(d, range.w)
        THEN [range |-> [lo |-> range.lo, w |-> [base |-> d, decays |-> 0]],
              ratio |-> valRatio]
        ELSE [range |-> range, ratio |-> valRatio]

(* __getDecimalRange__ on one channel's range: the new range and valRatio  *)
(* (the quotient is kept as numerator and width).                          *)
getDecimalRange(range, val) ==
    LET d == Sub(val, range.lo)
        valRatio == [num |-> d, width |-> range.w]
    IN  IF RatioAboveOne(d, range.w)
        THEN [range |-> [lo |-> range.lo, w |-> [base |-> d, decays |-> 0]],
              ratio |-> valRatio]
        ELSE IF RatioBelowZero(d, range.w)
        THEN [range |-> [lo |-> val, w |-> range.w], ratio |-> valRatio]
        ELSE [range |-> range, ratio |-> valRatio]

(* __updateMaximums__ on one range: width * 0.999 *)
updateMaximums(range) ==
    [lo |-> range.lo, w |-> [base |-> range.w.base, decays |-> range.w.decays + 1]]

(* __updateRolling__ on one estimate; rate in hundredths *)
updateRolling(rolling, rate, sample) ==
    Float((rolling.v * rate + sample.v * (100 - rate)) \div 100)

(* getTrimString raises ValueError when str(num) holds no "." *)
getTrimStringRaises(num) == num.kind /= "float"

(* __drawStats__ raises when one of its getTrimString calls does; the sums *)
(* lo + width are floats since the width is one.                           *)
drawStatsRaises(ampl, freq, aRange, fRange) ==
    \/ getTrimStringRaises(ampl)
    \/ getTrimStringRaises(freq)
    \/ getTrimStringRaises(aRange.lo)
    \/ getTrimStringRaises(fRange.lo)

----------------------------------------------------------------------------
(* Frames.  A frame record tells what generate() computed and drew.        *)
NoFrame ==
    [by |-> "none", bin |-> 0, len |-> 0, nbins |-> 0, freqNum |-> 0,
     max_amplitude |-> 0, odds |-> 0, cells |-> {}, hits |-> {}, rects |-> {},
     evens |-> FALSE, oddsShown |-> FALSE, stats |-> FALSE, rolling |-> FALSE]

amplitudeOddsCeil(max_amplitude) ==
    (max_amplitude * 10 + SAMPLE_MAX - 1) \div SAMPLE_MAX

(* int(max_amplitude / float(SAMPLE_MAX) * 10), line 145 *)
amplitudeOdds(max_amplitude) == Trunc(max_amplitude * 10, SAMPLE_MAX)

(* the truth values random.randint(0, k) can take; none when it raises     *)
(* ValueError (k < 0)                                                      *)
randintTruthy(k) == {r /= 0 : r \in 0..k}

(* rect_height, lines 128-133, from max_freq = freqNum / nbins *)
rectHeight(freqNum, nbins) ==
    IF freqNum >= freq_cap * nbins THEN 1
    ELSE LET h == (HEIGHT * freqNum) \div (freq_cap * nbins)
         IN  IF h = 2 THEN 1 ELSE h

(* rect_width, line 126 *)
rectWidth == WIDTH \div (columns * 2)

(* xrange(0, stop, step) for step > 0 *)
xrange(stop, step) == {i * step : i \in 0..((stop + step - 1) \div step - 1)}

(* the (x, y) pairs of the two xrange loops, lines 143-144 *)
gridCells(rect_height) ==
    IF rect_height >= 1
    THEN xrange(WIDTH - rectWidth, rectWidth * 2) \X xrange(HEIGHT, 2 * rect_height)
    ELSE {}

(* the rectangles lines 146-149 draw for the cells whose draw succeeded *)
drawnRects(hits, rect_height) ==
    (IF display_evens
     THEN {<<c[1], c[2], rectWidth, rect_height>> : c \in hits} ELSE {})
    \cup
    (IF display_odds
     THEN {<<c[1] + rectWidth, HEIGHT - c[2] - rect_height, rectWidth, rect_height>> :
            c \in hits}
     ELSE {})

(* LineVisualizer.generate: every outcome the random draws allow.  The     *)
(* smoothing state does not exist in this variant and is passed through.   *)
lineGenerate(block) ==
    LET a == Analysis[block]
        rh == rectHeight(a.freqNum, a.nbins)
        cells == gridCells(rh)
        k == amplitudeOdds(a.max_amplitude)
        outcomes == randintTruthy(k)
        base == [NoFrame EXCEPT !.by = "Line", !.bin = a.bin,
                                !.len = a.len, !.nbins = a.nbins,
                                !.freqNum = a.freqNum,
                                !.max_amplitude = a.max_amplitude,
                                !.odds = k, !.cells = cells,
                                !.evens = display_evens, !.oddsShown = display_odds]
        pass(raised, fr) ==
            [raised |-> raised, frame |-> fr, calls |-> <<>>,
             ampl_range |-> ampl_range, freq_range |-> freq_range,
             rollingAmpl |-> rollingAmpl, rollingFreq |-> rollingFreq]
    IN  IF cells /= {} /\ outcomes = {}
        THEN {pass(TRUE, base)}
        ELSE {pass(FALSE, [base EXCEPT !.hits = hits, !.rects = drawnRects(hits, rh)]) :
                hits \in {h \in SUBSET cells :
                            /\ (h /= {} => TRUE \in outcomes)
                            /\ (h /= cells => FALSE \in outcomes)}}

(* one __getDecimalRange__ call, as recorded in calls *)
Call(chan, val, before, other, res) ==
    [chan |-> chan, val |-> val, before |-> before, after |-> res.range,
     ratio |-> res.ratio, otherBefore |-> other, otherAfter |-> other]

(* CustomVisualizer.generate, lines 359-394 *)
customGenerate(block) ==
    LET a == Analysis[block]
        max_freq == Float(a.freqNum \div a.nbins)
        max_amplitude == Int16(a.max_amplitude)
        rA == updateRolling(rollingAmpl, amplLearningRate, max_amplitude)
        rF == updateRolling(rollingFreq, freqLearningRate, max_freq)
        aDecayed == updateMaximums(ampl_range)
        fDecayed == updateMaximums(freq_range)
        ampl == IF use_rolling THEN rA ELSE max_amplitude
        freq == IF use_rolling THEN rF ELSE max_freq
        color == getDecimalRange(fDecayed, freq)
        points == getDecimalRange(aDecayed, ampl)
        raised == display_stats /\ drawStatsRaises(ampl, freq, points.range, color.range)
    IN  {[raised |-> raised,
          frame |-> [NoFrame EXCEPT !.by = "Custom", !.bin = a.bin,
                                    !.len = a.len, !.nbins = a.nbins,
                                    !.freqNum = a.freqNum,
                                    !.max_amplitude = a.max_amplitude,
                                    !.stats = display_stats, !.rolling = use_rolling],
          calls |-> <<Call("freq", freq, fDecayed, aDecayed, color),
                      Call("ampl", ampl, aDecayed, color.range, points)>>,
          ampl_range |-> points.range, freq_range |-> color.range,
          rollingAmpl |-> rA, rollingFreq |-> rF]}

(* self.generate(data), dispatched on the class of the widget *)
generate(block) ==
    IF variant = "Line" THEN lineGenerate(block) ELSE customGenerate(block)

----------------------------------------------------------------------------
(* The refresh loop *)

NoTick ==
    [data |-> "unset", get_data |-> 0, generate |-> 0, raised |-> FALSE,
     setPixmap |-> 0, elapsed |-> 0, interval |-> update_interval,
     singleShot |-> 0, delay |-> 0, isVisible |-> FALSE,
     before |-> <<>>, after |-> <<>>]

refreshTimersInsideIf(present, vis) == IF present /\ vis THEN 1 ELSE 0

(* lines 55-56: the number of timers refresh() queues; the test stands     *)
(* outside the "if data is not None" block                                 *)
refreshTimers(present, vis) == IF vis THEN 1 ELSE 0

(* refresh(), lines 46-56, entered with `consumed` timers having fired and *)
(* the widget's visibility being vis.  An exception raised by generate()   *)
(* leaves refresh() at line 52.                                            *)
Refresh(consumed, vis) ==
    /\ ticks < MaxTicks
    /\ ticks' = ticks + 1
    /\ \/ /\ tick' = [NoTick EXCEPT !.data = "None", !.get_data = 1,
                                    !.singleShot = refreshTimers(FALSE, vis),
                                    !.delay = update_interval,
                                    !.isVisible = vis,
                                    !.before = smoothing, !.after = smoothing]
          /\ timers' = timers - consumed + refreshTimers(FALSE, vis)
          /\ UNCHANGED <<frame, smoothing, calls>>
       \/ \E block \in Blocks : \E g \in generate(block) : \E elapsed \in Elapsed :
          /\ frame' = g.frame
          /\ calls' = g.calls
          /\ ampl_range' = g.ampl_range
          /\ freq_range' = g.freq_range
          /\ rollingAmpl' = g.rollingAmpl
          /\ rollingFreq' = g.rollingFreq
          /\ IF g.raised
             THEN /\ tick' = [NoTick EXCEPT !.data = "block", !.get_data = 1,
                                            !.generate = 1, !.raised = TRUE,
                                            !.isVisible = vis,
                                            !.before = smoothing,
                                            !.after = <<g.ampl_range, g.freq_range,
                                                        g.rollingAmpl, g.rollingFreq>>]
                  /\ timers' = timers - consumed
             ELSE /\ tick' = [NoTick EXCEPT !.data = "block", !.get_data = 1,
                                            !.generate = 1, !.setPixmap = 1,
                                            !.elapsed = elapsed,
                                            !.interval = update_interval - elapsed,
                                            !.singleShot = refreshTimers(TRUE, vis),
                                            !.delay = update_interval,
                                            !.isVisible = vis,
                                            !.before = smoothing,
                                            !.after = <<g.ampl_range, g.freq_range,
                                                        g.rollingAmpl, g.rollingFreq>>]
                  /\ timers' = timers - consumed + refreshTimers(TRUE, vis)

(* show(), lines 41-44: show the widget, then refresh() at once *)
Show ==
    /\ visible' = TRUE
    /\ Refresh(0, TRUE)
    /\ UNCHANGED <<variant, keys, config>>

(* the host hides or closes the widget: isVisible() turns false *)
Hide ==
    /\ visible
    /\ visible' = FALSE
    /\ UNCHANGED <<variant, timers, ticks, keys, tick, frame, config, smoothing, calls>>

(* a QTimer.singleShot queued at line 56 fires and calls refresh() *)
TimerFires ==
    /\ timers > 0
    /\ Refresh(1, visible)
    /\ UNCHANGED <<variant, visible, keys, config>>

----------------------------------------------------------------------------
(* Key handlers *)

(* color_bindings = dict(zip('QWERTYU', self.brushes)): zip stops at the   *)
(* shorter sequence, so the seventh key has no brush                       *)
color_bindings ==
    [k \in {ColorKeys[i] : i \in 1..BrushCount} |->
        CHOOSE i \in 1..BrushCount : ColorKeys[i] = k]

(* the else branch shared by both handlers, lines 108-118 and 417-427 *)
ColorOrColumns(key) ==
    IF key \in DOMAIN color_bindings
    THEN /\ brush' = color_bindings[key] - 1
         /\ UNCHANGED columns
    ELSE /\ columns' = IF key = Key_0 THEN 10
                       ELSE IF Key_1 <= key /\ key <= Key_9 THEN key - Key_1 + 1
                       ELSE columns
         /\ UNCHANGED brush

(* LineVisualizer.keyPressEvent, lines 90-118 *)
LineKeyPress(key) ==
    /\ variant = "Line"
    /\ lastKey' = key
    /\ IF key = Key_I
       THEN /\ display_evens' = TRUE /\ display_odds' = TRUE
            /\ UNCHANGED <<is_fullscreen, brush, columns>>
       ELSE IF key = Key_O
       THEN /\ display_evens' = TRUE /\ display_odds' = FALSE
            /\ UNCHANGED <<is_fullscreen, brush, columns>>
       ELSE IF key = Key_P
       THEN /\ display_evens' = FALSE /\ display_odds' = TRUE
            /\ UNCHANGED <<is_fullscreen, brush, columns>>
       ELSE IF key = Key_Escape
       THEN /\ is_fullscreen' = ~is_fullscreen
            /\ UNCHANGED <<display_evens, display_odds, brush, columns>>
       ELSE /\ ColorOrColumns(key)
            /\ UNCHANGED <<display_evens, display_odds, is_fullscreen>>
    /\ UNCHANGED <<use_rolling, display_stats, center, amplLearningRate, freqLearningRate>>

rateUpUnguarded(rate, guard) == rate + 1

(* lines 402-404: += 0.01 when amplLearningRate < 0.99 *)
rateUp(rate, guard) == IF guard < 99 THEN rate + 1 ELSE rate

(* lines 406-408: -= 0.01 when amplLearningRate > 0.01 *)
rateDown(rate, guard) == IF guard > 1 THEN rate - 1 ELSE rate

(* CustomVisualizer.keyPressEvent, lines 396-427 *)
CustomKeyPress(key) ==
    /\ variant = "Custom"
    /\ lastKey' = key
    /\ IF key = Key_S
       THEN /\ display_stats' = ~display_stats
            /\ UNCHANGED <<use_rolling, amplLearningRate, freqLearningRate,
                           is_fullscreen, center, brush, columns>>
       ELSE IF key = Key_R
       THEN /\ use_rolling' = ~use_rolling
            /\ UNCHANGED <<display_stats, amplLearningRate, freqLearningRate,
                           is_fullscreen, center, brush, columns>>
       ELSE IF key = Key_Equal
       THEN /\ amplLearningRate' = rateUp(amplLearningRate, amplLearningRate)
            /\ freqLearningRate' = rateUp(freqLearningRate, amplLearningRate)
            /\ UNCHANGED <<display_stats, use_rolling, is_fullscreen, center,
                           brush, columns>>
       ELSE IF key = Key_Minus
       THEN /\ amplLearningRate' = rateDown(amplLearningRate, amplLearningRate)
            /\ freqLearningRate' = rateDown(freqLearningRate, amplLearningRate)
            /\ UNCHANGED <<display_stats, use_rolling, is_fullscreen, center,
                           brush, columns>>
       ELSE IF key = Key_Escape
       THEN /\ is_fullscreen' = ~is_fullscreen
            /\ center' = <<WIDTH \div 2, HEIGHT \div 2>>
            /\ UNCHANGED <<display_stats, use_rolling, amplLearningRate,
                           freqLearningRate, brush, columns>>
       ELSE /\ ColorOrColumns(key)
            /\ UNCHANGED <<display_stats, use_rolling, amplLearningRate,
                           freqLearningRate, is_fullscreen, center>>
    /\ UNCHANGED <<display_evens, display_odds>>

keyPressEvent(key) == LineKeyPress(key) \/ CustomKeyPress(key)

(* a key event delivered between two ticks *)
KeyPress ==
    /\ keys < MaxKeys
    /\ keys' = keys + 1
    /\ \E key \in LoopKeys : keyPressEvent(key)
    /\ UNCHANGED <<variant, visible, timers, ticks, tick, frame, smoothing, calls>>

(* the same, for the key handler studied on its own *)
KeyPressOnly ==
    /\ \E key \in Keys : keyPressEvent(key)
    /\ UNCHANGED <<variant, visible, timers, ticks, keys, tick, frame, smoothing, calls>>

----------------------------------------------------------------------------
(* __init__, lines 32-39, 73-88, 190-222; the widget is one of the two     *)
(* classes and is not shown yet                                            *)
Init ==
    /\ variant \in Variants
    /\ visible = FALSE
    /\ timers = 0
    /\ ticks = 0
    /\ keys = 0
    /\ tick = NoTick
    /\ frame = NoFrame
    /\ columns = 1
    /\ brush = 0
    /\ display_odds = TRUE
    /\ display_evens = TRUE
    /\ is_fullscreen = FALSE
    /\ use_rolling = FALSE
    /\ display_stats = FALSE
    /\ center = <<400, 400>>
    /\ ampl_range = [lo |-> Int_(1000), w |-> [base |-> 100, decays |-> 0]]
    /\ freq_range = [lo |-> Int_(1000), w |-> [base |-> 100, decays |-> 0]]
    /\ rollingAmpl = Int_(80)
    /\ rollingFreq = Int_(300)
    /\ amplLearningRate = 90
    /\ freqLearningRate = 90
    /\ calls = <<>>
    /\ lastKey = 0

Next == Show \/ Hide \/ TimerFires \/ KeyPress

Spec == Init /\ [][Next]_vars

SpecKeys == Init /\ [][KeyPressOnly]_vars

----------------------------------------------------------------------------
(* Properties *)

Max0(n) == IF n < 0 THEN 0 ELSE n

(* C1: when a block was present and the next tick is scheduled, the delay  *)
(* handed to the timer is max(0, update_interval - elapsed processing      *)
(* time).                                                                  *)
C1_DelayIsRemainingBudget ==
    (tick.data = "block" /\ tick.singleShot = 1)
        => tick.delay = Max0(update_interval - tick.elapsed)

(* C2: a tick whose get_data() returned None called get_data once, called  *)
(* neither generate nor setPixmap, left the smoothing state and the frame  *)
(* alone, and still scheduled the next tick if the widget is visible.      *)
C2_NoneTickSkipsRender ==
    [][(ticks' = ticks + 1 /\ tick'.data = "None")
        => /\ tick'.get_data = 1
           /\ tick'.generate = 0
           /\ tick'.setPixmap = 0
           /\ smoothing' = smoothing
           /\ frame' = frame
           /\ (visible' => (tick'.singleShot = 1 /\ timers' > 0))]_vars

C2_Witness ==
    /\ tick.data = "None"
    /\ tick.isVisible
    /\ tick.singleShot = 1
    /\ variant = "Custom"
    /\ ampl_range.w.decays = 1

(* C3: every tick ends with the next tick scheduled if and only if the     *)
(* widget is visible at that moment.                                       *)
C3_RescheduleIffVisible ==
    tick.get_data = 1 => (tick.singleShot = 1 <=> tick.isVisible)

(* C4: the dominant frequency generate() reports is i * SAMPLE_RATE / N,   *)
(* i the lowest bin attaining the maximum magnitude and N the block length. *)
C4_DominantFrequency ==
    frame.by /= "none"
        => frame.freqNum * frame.len = frame.bin * SAMPLE_RATE * frame.nbins

(* C5: generate() never raises, so a tick that received data reaches the   *)
(* rescheduling step.                                                      *)
C5_GenerateTotal == tick.generate = 1 => ~tick.raised

(* C6: the width of both adaptive ranges is always > 0. *)
C6_WidthPositive == ampl_range.w.base > 0 /\ freq_range.w.base > 0

C6_Witness ==
    /\ ticks = MaxTicks
    /\ ampl_range.w.base /= 100
    /\ freq_range.w.base /= 100
    /\ \E i \in 1..Len(calls) : calls[i].before.w.decays > 1

(* C7: __getDecimalRange__ on range (lo, w) returns (val - lo) / w; the    *)
(* range becomes (lo, val - lo) when that ratio is > 1, (val, w) when it   *)
(* is < 0, and is unchanged otherwise; the other channel is not touched.   *)
C7_NormalizeRule ==
    \A i \in 1..Len(calls) :
        LET c == calls[i]
            d == c.val.v - c.before.lo.v
        IN  /\ c.ratio = [num |-> d, width |-> c.before.w]
            /\ c.otherAfter = c.otherBefore
            /\ c.after = IF RatioAboveOne(d, c.before.w)
                         THEN [lo |-> c.before.lo, w |-> [base |-> d, decays |-> 0]]
                         ELSE IF RatioBelowZero(d, c.before.w)
                         THEN [lo |-> c.val, w |-> c.before.w]
                         ELSE c.before

(* C8: both learning rates stay within [0.01, 0.99] and equal to each      *)
(* other; Equal at 0.99 and Minus at 0.01 leave both unchanged.            *)
C8_LearningRateClamped ==
    /\ [](/\ amplLearningRate \in 1..99
          /\ freqLearningRate = amplLearningRate)
    /\ [][/\ (lastKey' = Key_Equal /\ amplLearningRate = 99)
                => (amplLearningRate' = 99 /\ freqLearningRate' = 99)
          /\ (lastKey' = Key_Minus /\ amplLearningRate = 1)
                => (amplLearningRate' = 1 /\ freqLearningRate' = 1)]_vars

C8_Witness ==
    /\ lastKey = Key_Equal
    /\ amplLearningRate = 99
    /\ freqLearningRate = 99

(* C9, as claimed: a block whose peak is at least SAMPLE_MAX/10 has every  *)
(* grid cell drawn, and a block whose peak is 0 has none drawn.            *)
C9_LoudBlockDrawsEveryCell ==
    frame.by = "Line"
        => /\ (10 * frame.max_amplitude >= SAMPLE_MAX => frame.hits = frame.cells)
           /\ (frame.max_amplitude = 0 => frame.hits = {})

(* C9, amended: a block whose peak is in [0, SAMPLE_MAX/10) has no grid    *)
(* cell drawn (the draw is from 0..0).                                     *)
C9_QuietBlockDrawsNothing ==
    (frame.by = "Line" /\ 0 <= frame.max_amplitude
                       /\ 10 * frame.max_amplitude < SAMPLE_MAX)
        => (frame.hits = {} /\ frame.rects = {})

C9_Witness ==
    /\ frame.by = "Line"
    /\ frame.max_amplitude = 1000
    /\ frame.cells /= {}
    /\ frame.evens
    /\ frame.hits = {}

(* C10: at most one tick is pending or running at any moment. *)
C10_SingleTickChain == timers <= 1

====
